---- MODULE Spec2Model ----
(***************************************************************************)
(* A model of spotify_to_ytmusic.py: the checkpoint store (load_state,     *)
(* save_state), the match ranker (ytm_search_best_id and its retry         *)
(* policy), ensure_playlist, the batch mutator (add_tracks_batched) and    *)
(* the orchestrator (transfer_playlists), run any number of times over a   *)
(* persistent file system and a persistent target library.                 *)
(*                                                                         *)
(* Python strings that the code inspects character by character (names,    *)
(* titles) are sequences of one-character strings; identifiers that the    *)
(* code only compares and stores (track ids, video ids) are TLA+ strings.  *)
(***************************************************************************)
EXTENDS Integers, Sequences, FiniteSets, TLC

VARIABLES
    fs,          \* the file system: path -> content (NoFile when absent)
    ytLib,       \* the target library: sequence of [playlistId, title]
    library,     \* the source library of this behaviour (never changes)
    pc,          \* position of the running process ("idle": no process)
    state,       \* the in-memory checkpoint state of the running process
    filter,      \* [include, exclude] of the current run
    playlists,   \* the filtered playlist list of the current run
    pidx,        \* index of the current playlist in playlists
    yt_playlist_id, \* target playlist of the current playlist
    tidx,        \* index of the current track in the playlist's tracks
    to_add,      \* the resolved ids gathered for the current playlist
    attempts,    \* attempts made by the retry policy for the current track
    vid,         \* the decision just resolved for the current track
    ret,         \* where save_state returns to
    video_ids,   \* add_tracks_batched: its input list
    bi,          \* add_tracks_batched: start (0-based) of the next batch
    summary,     \* add_tracks_batched: [attempted, added, failed]
    retry_list,  \* add_tracks_batched: ids of the retry pass
    ri,          \* add_tracks_batched: index of the next retry
    rk,          \* ranker under test: its inputs, its outcome, its scores
    hist         \* history of the behaviour (not program state)

vars == << fs, ytLib, library, pc, state, filter, playlists, pidx,
           yt_playlist_id, tidx, to_add, attempts, vid, ret, video_ids, bi,
           summary, retry_list, ri, rk, hist >>

-----------------------------------------------------------------------------
(* Bounds of the model. *)

\* number of runs of transfer_playlists in one behaviour
MaxRuns == 2
\* length of the short (explicit) part of an input list of add_tracks_batched
MaxIds == 2
\* length of a candidate list handed to the ranker under test
MaxCands == 2
\* the longest pair of strings (summed lengths) approx_ratio is applied to
MaxRatioLen == 10

-----------------------------------------------------------------------------
(* Python values. *)

None == "None"

\* Python truthiness of an Optional[str]
Truthy(v) == v # None /\ v # ""

Min(a, b) == IF a <= b THEN a ELSE b
Max(a, b) == IF a >= b THEN a ELSE b

\* s[:n]
Take(s, n) == SubSeq(s, 1, Min(n, Len(s)))

\* [vid for vid in s if vid]
SelectTruthy(s) == SelectSeq(s, Truthy)

-----------------------------------------------------------------------------
(* Helpers: slug. *)

IsSpace(c) == c \in {" ", "\t"}

\* str.lower() of one character (the capitals of the model's alphabet)
Lower(c) ==
    CASE c = "A" -> "a" [] c = "B" -> "b" [] c = "L" -> "l" [] c = "S" -> "s"
      [] OTHER -> c

\* re.sub(r"\s+", " ", s): every run of whitespace becomes one space (a
\* whitespace character that follows another one is dropped)
Collapse(s) ==
    LET KeepAt(i) == ~ (IsSpace(s[i]) /\ i > 1 /\ IsSpace(s[i - 1]))
        idx == SelectSeq([i \in 1..Len(s) |-> i], KeepAt)
    IN  [k \in 1..Len(idx) |-> IF IsSpace(s[idx[k]]) THEN " " ELSE s[idx[k]]]

\* str.strip() of a string whose whitespace runs are single spaces
Strip(s) ==
    LET a == IF s # << >> /\ s[1] = " " THEN Tail(s) ELSE s
    IN  IF a # << >> /\ a[Len(a)] = " " THEN SubSeq(a, 1, Len(a) - 1) ELSE a

\* slug(s); a missing string (s or "") is the empty sequence
slug(s) ==
    LET c == Strip(Collapse(s))
    IN  [i \in 1..Len(c) |-> Lower(c[i])]

-----------------------------------------------------------------------------
(* State persistence. A mapping is kept as Python keeps a dict: a sequence *)
(* of <<key, value>> pairs in insertion order. A file is a sequence of     *)
(* JSON tokens; an absent file is NoFile.                                  *)

CACHE_FILE == "transfer_state.json"

Has(m, k) == \E i \in 1..Len(m) : m[i][1] = k

Get(m, k) == m[CHOOSE i \in 1..Len(m) : m[i][1] = k][2]

\* m[k] = v
Put(m, k, v) ==
    IF Has(m, k)
    THEN [i \in 1..Len(m) |-> IF m[i][1] = k THEN << k, v >> ELSE m[i]]
    ELSE Append(m, << k, v >>)

EmptyState == [playlist_map |-> << >>, track_map |-> << >>]

NoFile == << << "ENOENT" >> >>

\* json encoding of one value: None is written as null
EncodeValue(v) == IF v = None THEN << "null" >> ELSE << "str", v >>

DecodeValue(t) == IF t = << "null" >> THEN None ELSE t[2]

RECURSIVE EncodeMap(_)
EncodeMap(m) ==
    IF m = << >> THEN << >>
    ELSE << << "key", Head(m)[1] >>, EncodeValue(Head(m)[2]) >>
         \o EncodeMap(Tail(m))

\* json.dump(state, f)
Dump(st) ==
    << << "{" >>, << "key", "playlist_map" >>, << "{" >> >>
    \o EncodeMap(st.playlist_map)
    \o << << "}" >>, << "key", "track_map" >>, << "{" >> >>
    \o EncodeMap(st.track_map)
    \o << << "}" >>, << "}" >> >>

IsValueToken(t) == t = << "null" >> \/ (Len(t) = 2 /\ t[1] = "str")

IsKeyToken(t) == Len(t) = 2 /\ t[1] = "key"

RECURSIVE ParseMap(_, _, _)
\* parses the entries of an object from token i on; the result is
\* [ok, map, next], next being the index after the closing brace
ParseMap(toks, i, acc) ==
    IF i > Len(toks) THEN [ok |-> FALSE, map |-> acc, next |-> i]
    ELSE IF toks[i] = << "}" >> THEN [ok |-> TRUE, map |-> acc, next |-> i + 1]
    ELSE IF i + 1 <= Len(toks) /\ IsKeyToken(toks[i]) /\ IsValueToken(toks[i + 1])
         THEN ParseMap(toks, i + 2,
                       Put(acc, toks[i][2], DecodeValue(toks[i + 1])))
         ELSE [ok |-> FALSE, map |-> acc, next |-> i]

ParseError == [error |-> "JSONDecodeError"]

\* json.load(f)
Parse(toks) ==
    IF Len(toks) >= 3 /\ toks[1] = << "{" >>
       /\ toks[2] = << "key", "playlist_map" >> /\ toks[3] = << "{" >>
    THEN LET pm == ParseMap(toks, 4, << >>)
         IN  IF pm.ok /\ pm.next + 1 <= Len(toks)
                /\ toks[pm.next] = << "key", "track_map" >>
                /\ toks[pm.next + 1] = << "{" >>
             THEN LET tm == ParseMap(toks, pm.next + 2, << >>)
                  IN  IF tm.ok /\ tm.next = Len(toks)
                         /\ toks[tm.next] = << "}" >>
                      THEN [playlist_map |-> pm.map, track_map |-> tm.map]
                      ELSE ParseError
             ELSE ParseError
    ELSE ParseError

\* load_state(): the state read from the canonical file of file system f
load_state(f) ==
    IF f[CACHE_FILE] # NoFile THEN Parse(f[CACHE_FILE]) ELSE EmptyState

\* the path mistaken for the temporary one: the canonical file itself
TmpPathInPlace == CACHE_FILE

\* tmp = CACHE_FILE + ".tmp"
TmpPath == "transfer_state.json.tmp"

Paths == { CACHE_FILE, "transfer_state.json.tmp" }

-----------------------------------------------------------------------------
(* Helpers: approx_ratio. SequenceMatcher(None, a, b).ratio() is 2*M/T, M  *)
(* the size of the matching blocks and T the two lengths summed. Ratios    *)
(* and scores are exact rationals, kept as integers over a fixed           *)
(* denominator: a ratio r is the integer r * RatioDen, a score s is the    *)
(* integer s * ScoreDen. (The junk heuristic of SequenceMatcher applies    *)
(* from 200 characters on, beyond the strings of the model.)               *)

RECURSIVE Gcd(_, _)
Gcd(a, b) == IF b = 0 THEN a ELSE Gcd(b, a % b)

RECURSIVE LcmUpTo(_)
LcmUpTo(n) == IF n <= 1 THEN 1 ELSE LET l == LcmUpTo(n - 1) IN (l * n) \div Gcd(l, n)

RatioDen == LcmUpTo(MaxRatioLen)

RECURSIVE Run(_, _, _, _)
\* the length of the common run of a from i and b from j
Run(a, b, i, j) ==
    IF i > Len(a) \/ j > Len(b) \/ a[i] # b[j] THEN 0
    ELSE 1 + Run(a, b, i + 1, j + 1)

RECURSIVE MatchCount(_, _)
\* the summed sizes of get_matching_blocks(): the longest block, the one
\* starting earliest in a and then earliest in b, and recursively the
\* blocks to its left and to its right
MatchCount(a, b) ==
    IF a = << >> \/ b = << >> THEN 0
    ELSE LET ps == (1..Len(a)) \X (1..Len(b))
             best == CHOOSE p \in ps : \A q \in ps :
                        \/ Run(a, b, p[1], p[2]) > Run(a, b, q[1], q[2])
                        \/ /\ Run(a, b, p[1], p[2]) = Run(a, b, q[1], q[2])
                           /\ \/ p[1] < q[1]
                              \/ p[1] = q[1] /\ p[2] <= q[2]
             k == Run(a, b, best[1], best[2])
         IN  IF k = 0 THEN 0
             ELSE k + MatchCount(SubSeq(a, 1, best[1] - 1),
                                 SubSeq(b, 1, best[2] - 1))
                    + MatchCount(SubSeq(a, best[1] + k, Len(a)),
                                 SubSeq(b, best[2] + k, Len(b)))

\* approx_ratio(a, b) * RatioDen
approx_ratio(a, b) ==
    LET x == slug(a)
        y == slug(b)
        T == Len(x) + Len(y)
    IN  IF T = 0 THEN RatioDen ELSE (2 * MatchCount(x, y) * RatioDen) \div T

RECURSIVE Join(_)
\* ", ".join(artists)
Join(artists) ==
    IF artists = << >> THEN << >>
    ELSE IF Len(artists) = 1 THEN artists[1]
    ELSE artists[1] \o << ",", " " >> \o Join(Tail(artists))

-----------------------------------------------------------------------------
(* YT Music: ytm_search_best_id.                                           *)
(* A track is [sp_id, name, artists, duration_ms]; duration_ms 0 stands    *)
(* for a missing (or zero) duration, both falsy. A candidate is [title,    *)
(* artists, duration, resultType, videoId, setVideoId]; its duration is    *)
(* the list duration.split(":") of its components, each <<"int", n>> (the  *)
(* text of the integer n) or <<"text">> (text int() rejects), and << >>    *)
(* when the candidate has no duration; an absent id is None.               *)

\* the fixed denominator of scores: weights in hundredths, the duration
\* score in 45ths, ratios in RatioDen-ths
ScoreDen == 100 * 45 * RatioDen

IsIntText(c) == c[1] = "int"

\* int(parts[0]) or int(parts[1]) raises ValueError
DurationRaises(track, r) ==
    /\ track.duration_ms # 0
    /\ r.duration # << >>
    /\ Len(r.duration) = 2
    /\ ~ (IsIntText(r.duration[1]) /\ IsIntText(r.duration[2]))

\* dur_score * 45, for a track whose duration is in whole seconds
dur_score(track, r) ==
    IF track.duration_ms # 0 /\ r.duration # << >> /\ Len(r.duration) = 2
    THEN LET r_ms == (r.duration[1][2] * 60 + r.duration[2][2]) * 1000
             d == track.duration_ms - r_ms
             diff == (IF d >= 0 THEN d ELSE -d) \div 1000
         IN  IF r_ms # 0 THEN Max(0, 45 - diff) ELSE 0
    ELSE 0

\* type_bonus * 100
type_bonus(r) == IF r.resultType = "song" THEN 25 ELSE 0

\* score * ScoreDen
Composite(track, r) ==
    LET t_ratio == approx_ratio(r.title, track.name)
        a_ratio == Max(approx_ratio(Join(r.artists), Join(track.artists)), 0)
    IN  50 * 45 * t_ratio + 35 * 45 * a_ratio
        + 15 * RatioDen * dur_score(track, r)
        + type_bonus(r) * 45 * RatioDen

\* r.get("videoId") or r.get("setVideoId")
UsableId(r) == IF Truthy(r.videoId) THEN r.videoId ELSE r.setVideoId

\* score > best_score
Better(score, best_score) == score > best_score

\* if candidate:
TakesCandidate(candidate) == Truthy(candidate)

RECURSIVE RankLoop(_, _, _, _, _)
\* the loop over results from index i on, with the running best
RankLoop(track, results, i, best_id, best_score) ==
    IF i > Len(results) THEN [best_id |-> best_id, best_score |-> best_score]
    ELSE LET score == Composite(track, results[i])
             candidate == UsableId(results[i])
         IN  IF Better(score, best_score) /\ TakesCandidate(candidate)
             THEN RankLoop(track, results, i + 1, candidate, score)
             ELSE RankLoop(track, results, i + 1, best_id, best_score)

ACCEPTABLE_TITLE_FUZZ == 34

\* best_score >= 1.0 - ACCEPTABLE_TITLE_FUZZ
Accepts(best_score) ==
    best_score >= (100 - ACCEPTABLE_TITLE_FUZZ) * 45 * RatioDen

\* one call of the function body on the results of the search: the
\* exception it raises, or the id (None: no match) it returns
RankBody(track, results) ==
    IF \E i \in 1..Len(results) : DurationRaises(track, results[i])
    THEN [raised |-> TRUE, id |-> None]
    ELSE LET b == RankLoop(track, results, 1, None, -ScoreDen)
         IN  [raised |-> FALSE,
              id |-> IF Accepts(b.best_score) THEN b.best_id ELSE None]

-----------------------------------------------------------------------------
(* YT Music: ensure_playlist. The target library is a sequence of          *)
(* [playlistId, title]; get_library_playlists(limit=100) returns it whole  *)
(* (the libraries of the model hold fewer than 100 playlists), and         *)
(* create_playlist appends a playlist under a fresh id.                    *)

TITLE_MAX == 150

FreshIds == << "L1", "L2", "L3", "L4", "L5", "L6", "L7", "L8", "L9", "L10",
               "L11", "L12" >>

\* title=name[:150]
CreateTitle(name) == Take(name, TITLE_MAX)

\* ensure_playlist(ytm, name, description) on library lib: the id it
\* returns, the library it leaves and whether it created a playlist
ensure_playlist(lib, name) ==
    LET found == { i \in 1..Len(lib) : slug(lib[i].title) = slug(name) }
    IN  IF found # {}
        THEN [id |-> lib[CHOOSE i \in found : \A j \in found : i <= j].playlistId,
              lib |-> lib, created |-> FALSE]
        ELSE [id |-> FreshIds[Len(lib) + 1],
              lib |-> Append(lib, [playlistId |-> FreshIds[Len(lib) + 1],
                                   title |-> CreateTitle(name)]),
              created |-> TRUE]

-----------------------------------------------------------------------------
(* YT Music: add_tracks_batched and its add_chunk.                         *)
(* A response of add_playlist_items is [kind, per]: kind "raise" (the call *)
(* raises), "dict" (a mapping, per its per-item result list, << >> when it *)
(* has none or an empty one) or "other" (not a mapping). A per-item entry  *)
(* is [isdict, status, added, message]: status None when absent, added     *)
(* whether playlistEditVideoAddedResultData is present and truthy, message *)
(* the error message, None when absent.                                    *)

BATCH == 50

Item(isdict, status, added, message) ==
    [isdict |-> isdict, status |-> status, added |-> added, message |-> message]

\* the success markers of one per-item entry
ItemOk(r) ==
    \/ r.isdict /\ r.status \in { "STATUS_SUCCEEDED", "OK" }
    \/ r.isdict /\ r.added

\* r.get("status") or r.get("error", {}).get("message") or "unknown"
ItemReason(r) ==
    IF Truthy(r.status) THEN r.status
    ELSE IF Truthy(r.message) THEN r.message
    ELSE "unknown"

\* the entry at 0-based index i of per is not ok and recording its failure
\* raises: r.get on an entry that is no mapping (AttributeError), or
\* chunk[i] beyond the chunk (IndexError)
ItemRaises(chunk, per, i) ==
    /\ ~ ItemOk(per[i])
    /\ (~ per[i].isdict \/ i > Len(chunk))

RECURSIVE PerFailures(_, _, _)
\* the failures of the per-item loop from entry i on
PerFailures(chunk, per, i) ==
    IF i > Len(per) THEN << >>
    ELSE IF ItemOk(per[i]) THEN PerFailures(chunk, per, i + 1)
    ELSE << << chunk[i], ItemReason(per[i]) >> >> \o PerFailures(chunk, per, i + 1)

\* a chunk with no per-item results counted as not added
NoDetailAddedNone(chunk) == 0

\* added += len(chunk)
NoDetailAdded(chunk) == Len(chunk)

\* add_chunk(chunk) when add_playlist_items answers resp:
\* [raised, added, failures]
add_chunk(chunk, resp) ==
    IF resp.kind = "raise"
    THEN [raised |-> FALSE, added |-> 0,
          failures |-> [i \in 1..Len(chunk) |-> << chunk[i], "exception" >>]]
    ELSE IF resp.kind = "dict"
    THEN IF resp.per # << >>
         THEN IF \E i \in 1..Len(resp.per) : ItemRaises(chunk, resp.per, i)
              THEN [raised |-> TRUE, added |-> 0, failures |-> << >>]
              ELSE [raised |-> FALSE,
                    added |-> Cardinality({ i \in 1..Len(resp.per) : ItemOk(resp.per[i]) }),
                    failures |-> PerFailures(chunk, resp.per, 1)]
         ELSE [raised |-> FALSE, added |-> NoDetailAdded(chunk), failures |-> << >>]
    ELSE [raised |-> FALSE, added |-> 0,
          failures |-> [i \in 1..Len(chunk) |-> << chunk[i], "unexpected_response_type" >>]]

\* one call add_playlist_items(playlist_id, chunk) as the history keeps it:
\* the pass it belongs to, its arguments, whether the answer carried
\* anything but a mapping without per-item results, and the ids add_chunk
\* recorded as failed
Call(pass, playlist_id, chunk, resp, r) ==
    [pass |-> pass, pl |-> playlist_id, ids |-> chunk,
     detail |-> ~ (resp.kind = "dict" /\ resp.per = << >>),
     failed |-> [i \in 1..Len(r.failures) |-> r.failures[i][1]]]

\* "attempted": len(video_ids)
Attempted(ids) == Len(ids)

\* a slice that starts one entry late
ChunkAtOneShort(pending, i) ==
    SelectTruthy(SubSeq(pending, i + 2, Min(i + BATCH, Len(pending))))

\* pending[i:i + BATCH] without its falsy entries, i 0-based
ChunkAt(pending, i) == SelectTruthy(SubSeq(pending, i + 1, Min(i + BATCH, Len(pending))))

\* a retry list that holds every failed id twice
FailedIdsTwice(failed) ==
    LET ids == [i \in 1..Len(failed) |-> failed[i][1]] IN ids \o ids

\* [vid for vid, _ in summary["failed"]]
FailedIds(failed) == [i \in 1..Len(failed) |-> failed[i][1]]

-----------------------------------------------------------------------------
(* The data of the model: source libraries, search results, filters and    *)
(* mutation responses the environment may produce.                         *)

LIKED_SONGS_ID == "__LIKED_SONGS__"

LIKED_SONGS_NAME == << "L", "i", "k", "e", "d", " ", "S", "o", "n", "g", "s" >>

\* a playlist name one character longer than a target title may be
LongName == [i \in 1..(TITLE_MAX + 1) |-> "x"]

Track(sp_id, name, artists, duration_ms) ==
    [sp_id |-> sp_id, name |-> name, artists |-> artists, duration_ms |-> duration_ms]

T1 == Track("t1", << "a", "b" >>, << << "a" >> >>, 200000)
T2 == Track("t2", << "b" >>, << << "a" >>, << "b" >> >>, 0)
T3 == Track("t3", << "a", "b" >>, << << "a" >> >>, 200000)

\* two playlists whose names are equal once normalized, and Liked Songs
LibShared ==
    [playlists |-> << [sp_id |-> "p1", name |-> << "A", "b" >>, tracks |-> << T1, T2 >>],
                      [sp_id |-> "p2", name |-> << " ", "a", "B", " ", " " >>,
                       tracks |-> << T2 >>] >>,
     liked |-> << T3 >>]

\* two playlists of one long name, the second empty, and an empty Liked
\* Songs
LibLong ==
    [playlists |-> << [sp_id |-> "p3", name |-> LongName, tracks |-> << T1 >>],
                      [sp_id |-> "p4", name |-> LongName, tracks |-> << >>] >>,
     liked |-> << >>]

Libraries == { LibShared, LibLong }

SpIds == { "p1", "p2", "p3", "p4", LIKED_SONGS_ID }

Cand(title, artists, duration, resultType, videoId, setVideoId) ==
    [title |-> title, artists |-> artists, duration |-> duration,
     resultType |-> resultType, videoId |-> videoId, setVideoId |-> setVideoId]

Dur(m, sec) == << << "int", m >>, << "int", sec >> >>

\* the song itself: same title and artist, same duration
CExact == Cand(<< "a", "b" >>, << << "a" >> >>, Dur(3, 20), "song", "ya", None)
\* as good a match, with no id at all
CNoId == Cand(<< "a", "b" >>, << << "a" >> >>, Dur(3, 20), "song", None, None)
\* as good a match, its id in the secondary field
CSetId == Cand(<< "a", "b" >>, << << "a" >> >>, Dur(3, 20), "song", "", "yb")
\* a video of the same title and artist, no duration
CVideo == Cand(<< "A", "b", " " >>, << << "a" >> >>, << >>, "video", "yc", None)
\* a poor match
CPoor == Cand(<< "b", "b" >>, << << "b" >> >>, Dur(9, 0), "video", "yd", None)
\* the song, 4 seconds longer
CNear == Cand(<< "a", "b" >>, << << "a" >> >>, Dur(3, 24), "song", "yh", None)
\* a song 20 seconds longer
CLonger == Cand(<< "a", "b" >>, << << "a" >> >>, Dur(3, 40), "song", "ye", None)
\* a duration of three components
CHours == Cand(<< "a", "b" >>, << << "a" >> >>,
               << << "int", 1 >>, << "int", 3 >>, << "int", 20 >> >>, "song", "yf", None)
\* a duration whose seconds are no integer
CBadDur == Cand(<< "a", "b" >>, << << "a" >> >>,
                << << "int", 3 >>, << "text" >> >>, "song", "yg", None)

Candidates ==
    { CExact, CNoId, CSetId, CVideo, CPoor, CNear, CLonger, CHours, CBadDur }

RankTracks == { T1, T2 }

\* the candidate lists handed to the ranker under test
CandLists == UNION { [1..n -> Candidates] : n \in 0..MaxCands }

\* the lists the search may return to the orchestrator
SearchResults == { << CVideo, CExact >>, << CPoor >>, << CBadDur >> }

NoFilter == [include |-> << >>, exclude |-> << >>]

\* the INCLUDE_PLAYLISTS / EXCLUDE_PLAYLISTS settings of a run
Filters ==
    { NoFilter,
      [include |-> << << "a", "B" >> >>, exclude |-> << >>],
      [include |-> << >>,
       exclude |-> << << "l", "i", "k", "e", "d", " ", " ", "s", "o", "n", "g", "s" >> >>] }

Items ==
    { Item(TRUE, "STATUS_SUCCEEDED", FALSE, None),
      Item(TRUE, None, TRUE, None),
      Item(TRUE, "STATUS_FAILED", FALSE, None),
      Item(TRUE, None, FALSE, "quota"),
      Item(TRUE, None, FALSE, None),
      Item(FALSE, None, FALSE, None) }

\* the answers add_playlist_items may give for a chunk of n ids: per-item
\* lists one entry short, exact, and one entry long; for a chunk longer
\* than the short lists: no per-item results, every entry succeeded, or
\* the first entry failed
Responses(n) ==
    IF n <= MaxIds
    THEN { [kind |-> k, per |-> << >>] : k \in { "raise", "dict", "other" } }
         \cup { [kind |-> "dict", per |-> per] :
                  per \in UNION { [1..k -> Items] :
                                    k \in { j \in (n - 1)..(n + 1) : j >= 1 } } }
    ELSE { [kind |-> "dict", per |-> << >>],
           [kind |-> "dict",
            per |-> [i \in 1..n |-> Item(TRUE, "STATUS_SUCCEEDED", FALSE, None)]],
           [kind |-> "dict",
            per |-> [i \in 1..n |-> IF i = 1 THEN Item(TRUE, "STATUS_FAILED", FALSE, None)
                                    ELSE Item(TRUE, "STATUS_SUCCEEDED", FALSE, None)]] }

\* the i-th id of a long input list
PadId(i) == "v" \o ToString(i)

\* the input lists of add_tracks_batched under test: a short list of ids,
\* falsy ones among them, behind nothing or a batch of falsy ids; and lists
\* of distinct ids that fill one or two batches and a little more
BatchInputs ==
    { [i \in 1..pad |-> ""] \o short :
        pad \in { 0, BATCH },
        short \in UNION { [1..n -> { "ya", "yb", "", None }] : n \in 0..MaxIds } }
    \cup { [i \in 1..n |-> PadId(i)] :
             n \in (BATCH..(BATCH + MaxIds)) \cup ((2 * BATCH)..(2 * BATCH + MaxIds)) }

-----------------------------------------------------------------------------
(* The process: one run of transfer_playlists at a time.                   *)

batchVars == << video_ids, bi, summary, retry_list, ri >>

NoSummary == [attempted |-> 0, added |-> 0, failed |-> << >>]

NoRank ==
    [track |-> T1, results |-> << >>, done |-> FALSE, raised |-> FALSE,
     id |-> None, scores |-> << >>, durs |-> << >>]

NoHist ==
    [run |-> 0, warm |-> FALSE, completed |-> {}, searched |-> FALSE,
     ensured |-> FALSE, mutated |-> FALSE, created |-> [sp \in SpIds |-> 0],
     ensureOnMapped |-> FALSE, lastSaved |-> EmptyState, err |-> None,
     calls |-> << >>]

\* the real playlists followed by the Liked Songs pseudo-playlist
AllPlaylists(lib) ==
    [i \in 1..Len(lib.playlists) |->
        [sp_id |-> lib.playlists[i].sp_id, name |-> lib.playlists[i].name,
         is_liked |-> FALSE]]
    \o << [sp_id |-> LIKED_SONGS_ID, name |-> LIKED_SONGS_NAME, is_liked |-> TRUE] >>

\* {slug(n) for n in names} if names else set()
SlugSet(names) == { slug(names[i]) : i \in 1..Len(names) }

\* a filter that leaves the exclude set out
FilteredIncludeOnly(pls, f) ==
    LET include_set == SlugSet(f.include)
        In(q) == slug(q.name) \in include_set
    IN  IF include_set # {} THEN SelectSeq(pls, In) ELSE pls

\* the include filter, then the exclude filter
Filtered(pls, f) ==
    LET include_set == SlugSet(f.include)
        exclude_set == SlugSet(f.exclude)
        In(q) == slug(q.name) \in include_set
        Out(q) == slug(q.name) \notin exclude_set
        a == IF include_set # {} THEN SelectSeq(pls, In) ELSE pls
    IN  IF exclude_set # {} THEN SelectSeq(a, Out) ELSE a

\* fetch_liked_songs / fetch_playlist_tracks
TracksOf(lib, q) ==
    IF q.is_liked THEN lib.liked
    ELSE lib.playlists[CHOOSE i \in 1..Len(lib.playlists) :
                          lib.playlists[i].sp_id = q.sp_id].tracks

p == playlists[pidx]

tracks == TracksOf(library, p)

Running == pc \notin { "idle", "done", "aborted" }

\* the variables of the playlist loop, as a new process holds them
LoopReset ==
    /\ yt_playlist_id' = None
    /\ tidx' = 0
    /\ to_add' = << >>
    /\ attempts' = 0
    /\ vid' = None
    /\ ret' = None
    /\ video_ids' = << >>
    /\ bi' = 0
    /\ summary' = NoSummary
    /\ retry_list' = << >>
    /\ ri' = 0

\* the variables of a process that is not running
Halted ==
    /\ LoopReset
    /\ state' = EmptyState
    /\ filter' = NoFilter
    /\ playlists' = << >>
    /\ pidx' = 0

\* lines 333-375: a new process loads the checkpoint and filters the playlists
StartRun ==
    /\ pc \in { "idle", "done", "aborted" }
    /\ hist.run < MaxRuns
    /\ \E f \in Filters :
         LET loaded == load_state(fs)
             pls == Filtered(AllPlaylists(library), f)
             h == [hist EXCEPT !.run = @ + 1, !.warm = f \in hist.completed,
                               !.searched = FALSE, !.ensured = FALSE,
                               !.mutated = FALSE, !.err = None,
                               !.calls = << >>]
         IN  /\ LoopReset
             /\ IF loaded = ParseError
                THEN /\ pc' = "aborted"
                     /\ hist' = [h EXCEPT !.err = "load"]
                     /\ state' = EmptyState
                     /\ filter' = f
                     /\ playlists' = << >>
                     /\ pidx' = 0
                ELSE /\ state' = loaded
                     /\ filter' = f
                     /\ playlists' = pls
                     /\ pidx' = IF pls = << >> THEN 0 ELSE 1
                     /\ pc' = IF pls = << >> THEN "done" ELSE "playlist"
                     /\ hist' = IF pls = << >>
                                THEN [h EXCEPT !.completed = @ \cup { f }]
                                ELSE h
    /\ UNCHANGED << fs, ytLib, library, rk >>

\* the process is killed
Kill ==
    /\ Running
    /\ pc' = "idle"
    /\ Halted
    /\ hist' = [hist EXCEPT !.calls = << >>]
    /\ UNCHANGED << fs, ytLib, library, rk >>

\* the step to the next playlist of the loop, which starts with fresh
\* locals, or the end of the run and of the process
Advance ==
    IF pidx < Len(playlists)
    THEN /\ pidx' = pidx + 1
         /\ pc' = "playlist"
         /\ hist' = [hist EXCEPT !.calls = << >>]
         /\ LoopReset
         /\ UNCHANGED << state, filter, playlists >>
    ELSE /\ pc' = "done"
         /\ hist' = [hist EXCEPT !.completed = @ \cup { filter },
                                 !.calls = << >>]
         /\ Halted

\* a lookup that finds no playlist mapped
IsMappedNever(m, sp_pl_id) == FALSE

\* sp_pl_id in state["playlist_map"]
IsMapped(m, sp_pl_id) == Has(m, sp_pl_id)

\* lines 386-387: the playlist is mapped already
UseMapped ==
    /\ pc = "playlist"
    /\ IsMapped(state.playlist_map, p.sp_id)
    /\ yt_playlist_id' = Get(state.playlist_map, p.sp_id)
    /\ pc' = "gather"
    /\ UNCHANGED << fs, ytLib, library, state, filter, playlists, pidx, tidx,
                    to_add, attempts, vid, ret, batchVars, rk, hist >>

\* line 389: find the target playlist by name or create it
EnsurePlaylist ==
    /\ pc = "playlist"
    /\ ~ IsMapped(state.playlist_map, p.sp_id)
    /\ LET r == ensure_playlist(ytLib, p.name)
       IN  /\ ytLib' = r.lib
           /\ yt_playlist_id' = r.id
           /\ hist' = [hist EXCEPT
                         !.ensured = TRUE,
                         !.created[p.sp_id] = @ + (IF r.created THEN 1 ELSE 0),
                         !.ensureOnMapped =
                             @ \/ Has(load_state(fs).playlist_map, p.sp_id)]
    /\ pc' = "ensured"
    /\ UNCHANGED << fs, library, state, filter, playlists, pidx, tidx, to_add,
                    attempts, vid, ret, batchVars, rk >>

\* line 391: save_state(state)
PcAfterMap == "save_open"

\* lines 390-391: record the mapping and save
MapPlaylist ==
    /\ pc = "ensured"
    /\ state' = [state EXCEPT
                   !.playlist_map = Put(@, p.sp_id, yt_playlist_id)]
    /\ pc' = PcAfterMap
    /\ ret' = "gather"
    /\ UNCHANGED << fs, ytLib, library, filter, playlists, pidx, yt_playlist_id,
                    tidx, to_add, attempts, vid, batchVars, rk, hist >>

\* line 81: open(tmp, "w") creates or truncates the temporary file
SaveOpen ==
    /\ pc = "save_open"
    /\ fs' = [fs EXCEPT ![TmpPath] = << >>]
    /\ pc' = "save_write"
    /\ UNCHANGED << ytLib, library, state, filter, playlists, pidx,
                    yt_playlist_id, tidx, to_add, attempts, vid, ret, batchVars,
                    rk, hist >>

\* line 82: json.dump has written the first half of the text
SaveWrite ==
    /\ pc = "save_write"
    /\ fs' = [fs EXCEPT ![TmpPath] = Take(Dump(state), Len(Dump(state)) \div 2)]
    /\ pc' = "save_close"
    /\ UNCHANGED << ytLib, library, state, filter, playlists, pidx,
                    yt_playlist_id, tidx, to_add, attempts, vid, ret, batchVars,
                    rk, hist >>

\* line 82: the rest is written and the file closed
SaveClose ==
    /\ pc = "save_close"
    /\ fs' = [fs EXCEPT ![TmpPath] = Dump(state)]
    /\ pc' = "save_replace"
    /\ UNCHANGED << ytLib, library, state, filter, playlists, pidx,
                    yt_playlist_id, tidx, to_add, attempts, vid, ret, batchVars,
                    rk, hist >>

\* os.replace(src, dst) on file system f
Replace(f, src, dst) ==
    [q \in DOMAIN f |-> IF q = dst THEN f[src] ELSE IF q = src THEN NoFile ELSE f[q]]

\* line 83: os.replace(tmp, CACHE_FILE); save_state returns
SaveReplace ==
    /\ pc = "save_replace"
    /\ fs' = Replace(fs, TmpPath, CACHE_FILE)
    /\ pc' = ret
    /\ hist' = [hist EXCEPT !.lastSaved = state]
    /\ UNCHANGED << ytLib, library, state, filter, playlists, pidx,
                    yt_playlist_id, tidx, to_add, attempts, vid, ret, batchVars,
                    rk >>

\* lines 394-401: fetch the tracks, start the to-add list
GatherTracks ==
    /\ pc = "gather"
    /\ tidx' = 1
    /\ to_add' = << >>
    /\ attempts' = 0
    /\ pc' = "track"
    /\ UNCHANGED << fs, ytLib, library, state, filter, playlists, pidx,
                    yt_playlist_id, vid, ret, batchVars, rk, hist >>

\* a lookup that takes a cached "no match" for a track never decided
IsCachedMatch(m, key) == Has(m, key) /\ Get(m, key) # None

\* key in state["track_map"]
IsCached(m, key) == Has(m, key)

\* lines 404-408: the decision is cached
UseCached ==
    /\ pc = "track"
    /\ tidx <= Len(tracks)
    /\ IsCached(state.track_map, tracks[tidx].sp_id)
    /\ to_add' = IF Truthy(Get(state.track_map, tracks[tidx].sp_id))
                 THEN Append(to_add, Get(state.track_map, tracks[tidx].sp_id))
                 ELSE to_add
    /\ tidx' = tidx + 1
    /\ attempts' = 0
    /\ UNCHANGED << fs, ytLib, library, pc, state, filter, playlists, pidx,
                    yt_playlist_id, vid, ret, batchVars, rk, hist >>

\* a retry policy that allows one attempt more
StopAfterFive(n) == n >= 5

\* stop=stop_after_attempt(4)
StopAfterAttempt(n) == n >= 4

\* a resolution kept in memory only
PcAfterSearchUnsaved == "after_resolve"

\* line 412: save_state(state)
PcAfterSearch == "save_open"

\* lines 410-412: one attempt of ytm_search_best_id under its retry policy;
\* the search raises or returns some results, and the body may raise on
\* them; the last failed attempt re-raises, a success is recorded and saved
SearchAttempt ==
    /\ pc = "track"
    /\ tidx <= Len(tracks)
    /\ ~ IsCached(state.track_map, tracks[tidx].sp_id)
    /\ \E raises \in BOOLEAN, results \in SearchResults :
         LET body == RankBody(tracks[tidx], results)
             h == [hist EXCEPT !.searched = TRUE]
         IN  /\ attempts' = attempts + 1
             /\ IF raises \/ body.raised
                THEN /\ pc' = IF StopAfterAttempt(attempts + 1) THEN "aborted" ELSE pc
                     /\ hist' = IF StopAfterAttempt(attempts + 1)
                                THEN [h EXCEPT !.err = "search"] ELSE h
                     /\ UNCHANGED << state, vid, ret >>
                ELSE /\ vid' = body.id
                     /\ state' = [state EXCEPT
                                    !.track_map = Put(@, tracks[tidx].sp_id, body.id)]
                     /\ pc' = PcAfterSearch
                     /\ ret' = "after_resolve"
                     /\ hist' = h
    /\ UNCHANGED << fs, ytLib, library, filter, playlists, pidx, yt_playlist_id,
                    tidx, to_add, batchVars, rk >>

\* lines 414-417: the resolved id joins the to-add list
AfterResolve ==
    /\ pc = "after_resolve"
    /\ to_add' = IF Truthy(vid) THEN Append(to_add, vid) ELSE to_add
    /\ tidx' = tidx + 1
    /\ attempts' = 0
    /\ pc' = "track"
    /\ UNCHANGED << fs, ytLib, library, state, filter, playlists, pidx,
                    yt_playlist_id, vid, ret, batchVars, rk, hist >>

\* if to_add:
HasWork(ids) == ids # << >>

\* lines 419-420 and 445-446: call add_tracks_batched when there is
\* something to add, else go on to the next playlist
Mutate ==
    /\ pc = "track"
    /\ tidx > Len(tracks)
    /\ IF HasWork(to_add)
       THEN /\ video_ids' = to_add
            /\ summary' = [attempted |-> Attempted(to_add), added |-> 0,
                           failed |-> << >>]
            /\ bi' = 0
            /\ retry_list' = << >>
            /\ ri' = 0
            /\ pc' = "first_pass"
            /\ UNCHANGED << state, filter, playlists, pidx, yt_playlist_id,
                            tidx, to_add, attempts, vid, ret, hist >>
       ELSE Advance
    /\ UNCHANGED << fs, ytLib, library, rk >>

\* lines 301-308: one batch of the first pass; a batch with no truthy id
\* is skipped, an exception add_chunk does not catch leaves the function
FirstPass ==
    /\ pc = "first_pass"
    /\ bi < Len(video_ids)
    /\ LET chunk == ChunkAt(video_ids, bi)
       IN  IF chunk = << >>
           THEN /\ bi' = bi + BATCH
                /\ UNCHANGED << pc, summary, hist >>
           ELSE \E resp \in Responses(Len(chunk)) :
                  LET r == add_chunk(chunk, resp)
                  IN  IF r.raised
                      THEN /\ pc' = "aborted"
                           /\ hist' = [hist EXCEPT
                                         !.mutated = TRUE, !.err = "mutation",
                                         !.calls = Append(@, Call("first",
                                             yt_playlist_id, chunk, resp, r))]
                           /\ UNCHANGED << bi, summary >>
                      ELSE /\ summary' = [summary EXCEPT
                                            !.added = @ + r.added,
                                            !.failed = @ \o r.failures]
                           /\ bi' = bi + BATCH
                           /\ hist' = [hist EXCEPT
                                         !.mutated = TRUE,
                                         !.calls = Append(@, Call("first",
                                             yt_playlist_id, chunk, resp, r))]
                           /\ UNCHANGED pc
    /\ UNCHANGED << fs, ytLib, library, state, filter, playlists, pidx,
                    yt_playlist_id, tidx, to_add, attempts, vid, ret, video_ids,
                    retry_list, ri, rk >>

\* lines 311-314: after the last batch, the failed ids become the retry list
EndFirstPass ==
    /\ pc = "first_pass"
    /\ bi >= Len(video_ids)
    /\ IF summary.failed # << >>
       THEN /\ retry_list' = FailedIds(summary.failed)
            /\ summary' = [summary EXCEPT !.failed = << >>]
            /\ ri' = 1
            /\ pc' = "retry"
       ELSE /\ pc' = "returned"
            /\ UNCHANGED << summary, retry_list, ri >>
    /\ UNCHANGED << fs, ytLib, library, state, filter, playlists, pidx,
                    yt_playlist_id, tidx, to_add, attempts, vid, ret, video_ids,
                    bi, rk, hist >>

\* lines 316-320: one id of the retry pass, alone in its chunk
Retry ==
    /\ pc = "retry"
    /\ ri <= Len(retry_list)
    /\ \E resp \in Responses(1) :
         LET r == add_chunk(<< retry_list[ri] >>, resp)
         IN  IF r.raised
             THEN /\ pc' = "aborted"
                  /\ hist' = [hist EXCEPT
                                !.mutated = TRUE, !.err = "mutation",
                                !.calls = Append(@, Call("retry", yt_playlist_id,
                                    << retry_list[ri] >>, resp, r))]
                  /\ UNCHANGED << ri, summary >>
             ELSE /\ summary' = [summary EXCEPT
                                   !.added = @ + r.added,
                                   !.failed = @ \o r.failures]
                  /\ ri' = ri + 1
                  /\ hist' = [hist EXCEPT
                                !.mutated = TRUE,
                                !.calls = Append(@, Call("retry", yt_playlist_id,
                                    << retry_list[ri] >>, resp, r))]
                  /\ UNCHANGED pc
    /\ UNCHANGED << fs, ytLib, library, state, filter, playlists, pidx,
                    yt_playlist_id, tidx, to_add, attempts, vid, ret, video_ids,
                    bi, retry_list, rk >>

\* line 322: return summary
EndRetry ==
    /\ pc = "retry"
    /\ ri > Len(retry_list)
    /\ pc' = "returned"
    /\ UNCHANGED << fs, ytLib, library, state, filter, playlists, pidx,
                    yt_playlist_id, tidx, to_add, attempts, vid, ret, batchVars,
                    rk, hist >>

\* normalize_track(title, artists): slug(f"{title} - {a}"), the dash of the
\* source written as a hyphen
normalize_track(title, artists) ==
    slug(title \o << " ", "-", " " >> \o Join(artists))

\* lines 428-442: the rows of ytm_add_failures.csv, one for each failed id:
\* the id, the description of the track at the index tried_map gives for
\* the id (the last index of the id in ids; the empty text when it has none
\* within the tracks) and the reason
ReportRows(ids, trks, failed) ==
    [k \in 1..Len(failed) |->
        LET at == { i \in 1..Len(ids) : ids[i] = failed[k][1] }
            idx == CHOOSE i \in at : \A j \in at : j <= i
        IN  << failed[k][1],
               IF at # {} /\ idx <= Len(trks)
               THEN normalize_track(trks[idx].name, trks[idx].artists)
               ELSE << >>,
               failed[k][2] >>]

\* lines 421-448: the summary is reported, the failures, if any, written
\* as ReportRows(to_add, tracks, summary.failed) to a file that is never
\* read back (it is not kept in the state), and the loop goes on
Report ==
    /\ pc = "returned"
    /\ Advance
    /\ UNCHANGED << fs, ytLib, library, rk >>

-----------------------------------------------------------------------------
(* The runs of transfer_playlists: any number of processes, one after the  *)
(* other, each running to its end, aborted by an exception or killed.      *)

Init ==
    /\ fs = [q \in Paths |-> NoFile]
    /\ ytLib = << >>
    /\ library \in Libraries
    /\ pc = "idle"
    /\ state = EmptyState
    /\ filter = NoFilter
    /\ playlists = << >>
    /\ pidx = 0
    /\ yt_playlist_id = None
    /\ tidx = 0
    /\ to_add = << >>
    /\ attempts = 0
    /\ vid = None
    /\ ret = None
    /\ video_ids = << >>
    /\ bi = 0
    /\ summary = NoSummary
    /\ retry_list = << >>
    /\ ri = 0
    /\ rk = NoRank
    /\ hist = NoHist

Next ==
    \/ StartRun
    \/ Kill
    \/ UseMapped
    \/ EnsurePlaylist
    \/ MapPlaylist
    \/ SaveOpen
    \/ SaveWrite
    \/ SaveClose
    \/ SaveReplace
    \/ GatherTracks
    \/ UseCached
    \/ SearchAttempt
    \/ AfterResolve
    \/ Mutate
    \/ FirstPass
    \/ EndFirstPass
    \/ Retry
    \/ EndRetry
    \/ Report

Spec == Init /\ [][Next]_vars

-----------------------------------------------------------------------------
(* add_tracks_batched on its own: any input list, any answers.             *)

InitBatch ==
    /\ fs = [q \in Paths |-> NoFile]
    /\ ytLib = << >>
    /\ library = LibShared
    /\ pc = "first_pass"
    /\ state = EmptyState
    /\ filter = NoFilter
    /\ playlists = << >>
    /\ pidx = 0
    /\ yt_playlist_id = "L1"
    /\ tidx = 0
    /\ to_add = << >>
    /\ attempts = 0
    /\ vid = None
    /\ ret = None
    /\ video_ids \in BatchInputs
    /\ bi = 0
    /\ summary = [attempted |-> Attempted(video_ids), added |-> 0, failed |-> << >>]
    /\ retry_list = << >>
    /\ ri = 0
    /\ rk = NoRank
    /\ hist = NoHist

NextBatch ==
    \/ FirstPass
    \/ EndFirstPass
    \/ Retry
    \/ EndRetry

SpecBatch == InitBatch /\ [][NextBatch]_vars

-----------------------------------------------------------------------------
(* ytm_search_best_id on its own: any track, any candidate list.           *)

InitRank ==
    /\ fs = [q \in Paths |-> NoFile]
    /\ ytLib = << >>
    /\ library = LibShared
    /\ pc = "idle"
    /\ state = EmptyState
    /\ filter = NoFilter
    /\ playlists = << >>
    /\ pidx = 0
    /\ yt_playlist_id = None
    /\ tidx = 0
    /\ to_add = << >>
    /\ attempts = 0
    /\ vid = None
    /\ ret = None
    /\ video_ids = << >>
    /\ bi = 0
    /\ summary = NoSummary
    /\ retry_list = << >>
    /\ ri = 0
    /\ \E t \in RankTracks, results \in CandLists :
         rk = [track |-> t, results |-> results, done |-> FALSE,
               raised |-> FALSE, id |-> None, scores |-> << >>, durs |-> << >>]
    /\ hist = NoHist

\* lines 201-229: the body of ytm_search_best_id on the search's results,
\* with the dur_score and the score it computed for each candidate
RankCall ==
    /\ ~ rk.done
    /\ LET body == RankBody(rk.track, rk.results)
           n == IF body.raised THEN 0 ELSE Len(rk.results)
       IN  rk' = [rk EXCEPT
                    !.done = TRUE, !.raised = body.raised, !.id = body.id,
                    !.scores = [i \in 1..n |-> Composite(rk.track, rk.results[i])],
                    !.durs = [i \in 1..n |-> dur_score(rk.track, rk.results[i])]]
    /\ UNCHANGED << fs, ytLib, library, pc, state, filter, playlists, pidx,
                    yt_playlist_id, tidx, to_add, attempts, vid, ret, batchVars,
                    hist >>

NextRank == RankCall

SpecRank == InitRank /\ [][NextRank]_vars

-----------------------------------------------------------------------------
(* Properties.                                                             *)

\* what a new process would load from the canonical file now
Persisted == LET l == load_state(fs) IN IF l = ParseError THEN EmptyState ELSE l

\* the <<key, value>> pairs of a mapping
Entries(m) == { m[i] : i \in 1..Len(m) }

\* C1: a run that completes after an earlier run with the same settings
\* completed (the library and the checkpoint file being what that run left)
\* issues no add_playlist_items call.
C1_SecondRunMutatesNothing ==
    (pc = "done" /\ hist.warm) => ~ hist.mutated

\* C2: an attempt of the search is made only for a track whose id has no
\* entry in the checkpoint file, "no match" entries included; and a run that
\* completes after an earlier run with the same settings completed has made
\* no search call and no find-or-create call.
C2_NoSearchForDecidedTrack ==
    /\ [][attempts' = attempts + 1
            => ~ Has(Persisted.track_map, tracks[tidx].sp_id)]_vars
    /\ []((pc = "done" /\ hist.warm) => (~ hist.searched /\ ~ hist.ensured))

\* C2 witness: a second complete run ends without a search, the checkpoint
\* holding a match and a "no match"
C2_Witness ==
    /\ pc = "done" /\ hist.warm /\ ~ hist.searched /\ hist.run = 2
    /\ \E e \in Entries(Persisted.track_map) : e[2] = None
    /\ \E e \in Entries(Persisted.track_map) : e[2] # None

\* C3: whenever the process could be killed, the checkpoint file holds
\* every playlist mapping and track decision the process holds in memory,
\* with their values, but at most one (the one in flight).
C3_CheckpointHoldsDecisions ==
    pc \notin { "idle", "done" } =>
        /\ Entries(Persisted.playlist_map) \subseteq Entries(state.playlist_map)
        /\ Entries(Persisted.track_map) \subseteq Entries(state.track_map)
        /\ Cardinality((Entries(state.playlist_map) \ Entries(Persisted.playlist_map))
                       \cup (Entries(state.track_map) \ Entries(Persisted.track_map)))
           <= 1

\* C3 witness: a "no match" decision is in flight, its save half written,
\* with earlier decisions in the file
C3_Witness ==
    /\ pc = "save_close" /\ ret = "after_resolve" /\ vid = None
    /\ Persisted.track_map # << >>
    /\ Entries(state.track_map) \ Entries(Persisted.track_map) # {}

\* C4: load_state returns exactly the state given to the last save_state
\* that completed, whatever steps of later saves were taken since, and two
\* empty mappings when no save_state completed.
C4_LoadReturnsLastCompletedSave ==
    /\ load_state(fs) = hist.lastSaved
    /\ (fs[CACHE_FILE] = NoFile => load_state(fs) = EmptyState)

\* C4 witness: a process killed in the middle of a write left half a
\* temporary file beside a canonical file that holds a "no match"
C4_Witness ==
    /\ pc = "idle"
    /\ fs[TmpPath] # NoFile /\ fs[TmpPath] # << >> /\ Parse(fs[TmpPath]) = ParseError
    /\ fs[CACHE_FILE] # NoFile
    /\ \E e \in Entries(hist.lastSaved.track_map) : e[2] = None

\* C5: at most one target playlist is ever created for a source playlist,
\* and find-or-create is never called for a source playlist that has an
\* entry in the checkpoint file.
C5_OneTargetPlaylistPerSource ==
    /\ \A sp \in SpIds : hist.created[sp] <= 1
    /\ ~ hist.ensureOnMapped

\* C6: the attempted count add_tracks_batched returns is the number of
\* input ids left once the falsy ones are dropped.
C6_AttemptedCountsTruthyIds ==
    pc = "returned" => summary.attempted = Len(SelectTruthy(video_ids))

\* C7: when add_tracks_batched returns, added plus the number of failed ids
\* is the number of non-falsy input ids.
C7_AddedPlusFailedIsSubmitted ==
    pc = "returned" =>
        summary.added + Len(summary.failed) = Len(SelectTruthy(video_ids))

\* C8: no answer of the mutation call makes add_tracks_batched raise: the
\* run is never aborted by it.
C8_MutationFailureNeverFatal ==
    ~ (pc = "aborted" /\ hist.err = "mutation")

\* C9: a track gets at most 4 attempts, each made while it is undecided;
\* when the 4th fails the run is aborted with no track_map entry for the
\* track in memory or in the file, no call of add_tracks_batched for the
\* current playlist, every decision made before in the file, and no further
\* step of that process.
C9_SearchRetriesThenAborts ==
    /\ [](attempts <= 4)
    /\ [][attempts' = attempts + 1 =>
            (attempts < 4 /\ ~ Has(state.track_map, tracks[tidx].sp_id))]_vars
    /\ []((pc = "aborted" /\ hist.err = "search") =>
            /\ attempts = 4
            /\ ~ Has(state.track_map, tracks[tidx].sp_id)
            /\ ~ Has(Persisted.track_map, tracks[tidx].sp_id)
            /\ video_ids = << >> /\ summary = NoSummary
            /\ Persisted = state)
    /\ [][pc = "aborted" => hist.run' = hist.run + 1]_vars

\* C9 witness: the run is aborted by the search with ids of the current
\* playlist waiting to be added and decisions in the file
C9_Witness ==
    /\ pc = "aborted" /\ hist.err = "search"
    /\ to_add # << >>
    /\ Persisted.track_map # << >>

HasId(r) == Truthy(UsableId(r))

\* the id of the earliest id-bearing candidate of greatest composite, when
\* that composite reaches 0.66
EarliestBest(track, results) ==
    LET ids == { i \in 1..Len(results) : HasId(results[i]) }
    IN  IF ids = {} THEN None
        ELSE LET top == CHOOSE i \in ids : \A j \in ids :
                          \/ Composite(track, results[i]) > Composite(track, results[j])
                          \/ /\ Composite(track, results[i]) = Composite(track, results[j])
                             /\ i <= j
             IN  IF 100 * Composite(track, results[top]) >= 66 * ScoreDen
                 THEN UsableId(results[top]) ELSE None

\* C10: for every candidate list, ytm_search_best_id returns, and what it
\* returns is the id of the earliest candidate with a usable id whose
\* composite is the greatest among the candidates with a usable id, when
\* that composite is at least 0.66, and "no match" otherwise; it is what is
\* returned without the candidates that have no usable id.
C10_ReturnsEarliestBestWithId ==
    rk.done =>
        /\ ~ rk.raised
        /\ rk.id = EarliestBest(rk.track, rk.results)
        /\ rk.id = RankBody(rk.track, SelectSeq(rk.results, HasId)).id

\* the playlists of library lib, Liked Songs last, whose normalized name is
\* among the included names when there are any and among the excluded
\* names never
ExpectedPlaylists(lib, f) ==
    LET Named(q, names) == \E i \in 1..Len(names) : slug(names[i]) = slug(q.name)
        Keep(q) == /\ (f.include = << >> \/ Named(q, f.include))
                   /\ (f.exclude = << >> \/ ~ Named(q, f.exclude))
    IN  SelectSeq(AllPlaylists(lib), Keep)

\* C11: the playlists a run processes are the real playlists and then the
\* Liked Songs entry, in that order, that the include names (when given)
\* name and the exclude names (when given) do not, by normalized name; the
\* run takes them one by one and ends after the last; and a run left with
\* none ends at once, having written no file and made no find-or-create,
\* search or mutation call.
C11_ProcessesFilteredPlaylists ==
    /\ [](Running => /\ playlists = ExpectedPlaylists(library, filter)
                      /\ pidx \in 1..Len(playlists))
    /\ [][(hist.run' = hist.run /\ pc' \notin { "idle", "done", "aborted" })
            => pidx' \in { pidx, pidx + 1 }]_vars
    /\ [][(hist.run' = hist.run /\ pc' = "done" /\ pc # "done")
            => pidx = Len(playlists)]_vars
    /\ [][(hist.run' = hist.run + 1 /\ ExpectedPlaylists(library, filter') = << >>)
            => /\ pc' = "done"
               /\ fs' = fs /\ ytLib' = ytLib
               /\ ~ hist.searched' /\ ~ hist.ensured' /\ ~ hist.mutated']_vars

\* C11 witness: a run given include names is at the second of the two
\* playlists they name, Liked Songs being left out
C11_Witness ==
    /\ pc = "gather" /\ pidx = 2
    /\ filter.include # << >>
    /\ Len(playlists) < Len(AllPlaylists(library))

\* what a new process would load from the canonical file of file system f
PersistedIn(f) == LET l == load_state(f) IN IF l = ParseError THEN EmptyState ELSE l

\* C12: playlist_map and track_map only grow. While a process runs, every
\* entry of its two mappings stays, with its value (a write is to an absent
\* key); whenever the checkpoint file changes, every entry it held stays,
\* with its value; and a new process starts from the entries of the file.
C12_MappingsAppendOnly ==
    /\ [][(state' # state /\ hist.run' = hist.run /\ pc' \notin { "idle", "done" })
            => /\ Entries(state.playlist_map) \subseteq Entries(state.playlist_map')
               /\ Entries(state.track_map) \subseteq Entries(state.track_map')]_vars
    /\ [][fs'[CACHE_FILE] # fs[CACHE_FILE]
            => /\ Entries(PersistedIn(fs).playlist_map)
                    \subseteq Entries(PersistedIn(fs').playlist_map)
               /\ Entries(PersistedIn(fs).track_map)
                    \subseteq Entries(PersistedIn(fs').track_map)]_vars
    /\ [][(hist.run' = hist.run + 1 /\ pc' \notin { "done", "aborted" })
            => state' = Persisted]_vars

\* C12 witness: a later process, started from a file that holds a match and
\* a "no match", is about to replace the file with one more entry
C12_Witness ==
    /\ pc = "save_replace" /\ hist.run = 2
    /\ \E e \in Entries(Persisted.track_map) : e[2] = None
    /\ \E e \in Entries(Persisted.track_map) : e[2] # None
    /\ Len(state.track_map) > Len(Persisted.track_map)

RECURSIVE CallIds(_)
\* the ids the calls carried, in the order of the calls
CallIds(calls) ==
    IF calls = << >> THEN << >> ELSE Head(calls).ids \o CallIds(Tail(calls))

\* the calls of one pass
CallsOf(pass) == SelectSeq(hist.calls, LAMBDA c : c.pass = pass)

\* C13: when add_tracks_batched returns from a list of n ids, none falsy,
\* every call having answered with a mapping without per-item results, it
\* has made ceil(n/50) calls, all in the first pass, of at most 50 ids each
\* and together the input list, and it returns added = n and no failure.
C13_NoDetailAddsEveryBatch ==
    (/\ pc = "returned"
     /\ video_ids = SelectTruthy(video_ids)
     /\ \A i \in 1..Len(hist.calls) : ~ hist.calls[i].detail)
    => /\ Len(hist.calls) = (Len(video_ids) + 49) \div 50
       /\ \A i \in 1..Len(hist.calls) :
             Len(hist.calls[i].ids) <= 50 /\ hist.calls[i].pass = "first"
       /\ CallIds(hist.calls) = video_ids
       /\ summary.added = Len(video_ids)
       /\ summary.failed = << >>

\* C13 witness: more than two batches of ids were added in three calls
C13_Witness ==
    /\ pc = "returned"
    /\ video_ids = SelectTruthy(video_ids)
    /\ Len(video_ids) > 2 * BATCH
    /\ Len(hist.calls) = 3
    /\ \A i \in 1..Len(hist.calls) : ~ hist.calls[i].detail

RECURSIVE CallFailures(_)
\* the ids the calls left recorded as failed, in the order of the calls
CallFailures(calls) ==
    IF calls = << >> THEN << >> ELSE Head(calls).failed \o CallFailures(Tail(calls))

\* C14: in add_tracks_batched the calls of the retry pass come after all
\* the calls of the first pass, which carried every non-falsy input id;
\* each carries one id; their ids are, in order and one call each, the ids
\* recorded as failed in the first pass (all of them once the function
\* returns); and the failed list returned holds the ids recorded as failed
\* by the calls of the retry pass, and nothing else.
C14_RetriesFirstPassFailuresOnce ==
    LET first == CallsOf("first")
        retry == CallsOf("retry")
        due == CallFailures(first)
    IN  /\ pc = "first_pass" => retry = << >>
        /\ pc \in { "retry", "returned" } =>
              /\ hist.calls = first \o retry
              /\ CallIds(first) = SelectTruthy(video_ids)
              /\ \A i \in 1..Len(retry) : Len(retry[i].ids) = 1
              /\ Len(retry) <= Len(due)
              /\ CallIds(retry) = SubSeq(due, 1, Len(retry))
        /\ pc = "returned" =>
              /\ CallIds(retry) = due
              /\ [i \in 1..Len(summary.failed) |-> summary.failed[i][1]]
                   = CallFailures(retry)

\* C14 witness: an id of the first of two batches and an id of the second
\* failed; both were retried, one of them with success
C14_Witness ==
    /\ pc = "returned"
    /\ Len(CallsOf("first")) = 2
    /\ \A i \in 1..2 : CallsOf("first")[i].failed # << >>
    /\ Len(CallsOf("retry")) >= 2
    /\ Len(summary.failed) = 1
    /\ summary.added > BATCH

\* the duration of candidate r is the text of two integers
Parseable(r) ==
    Len(r.duration) = 2 /\ IsIntText(r.duration[1]) /\ IsIntText(r.duration[2])

\* the seconds between the duration of the track and that of candidate r
DiffSeconds(track, r) ==
    LET d == track.duration_ms - (r.duration[1][2] * 60 + r.duration[2][2]) * 1000
    IN  (IF d >= 0 THEN d ELSE -d) \div 1000

\* candidate r has the title and the artists of the track once normalized,
\* a duration within 5 seconds of the track's, the type "song" and an id
IsExact(track, r) ==
    /\ slug(r.title) = slug(track.name)
    /\ slug(Join(r.artists)) = slug(Join(track.artists))
    /\ r.resultType = "song"
    /\ HasId(r)
    /\ track.duration_ms # 0
    /\ Parseable(r)
    /\ DiffSeconds(track, r) <= 5

\* C15: when one candidate of the list is an exact match of the track,
\* ytm_search_best_id returns the id of that candidate, whatever the other
\* candidates are, and the score it computed for that candidate is 1.0.
C15_ExactMatchReturnedWithScoreOne ==
    LET exact == { i \in 1..Len(rk.results) : IsExact(rk.track, rk.results[i]) }
    IN  (rk.done /\ Cardinality(exact) = 1) =>
            /\ ~ rk.raised
            /\ \A i \in exact : /\ rk.id = UsableId(rk.results[i])
                                 /\ rk.scores[i] = ScoreDen

\* the duration of candidate r is present and is not the text of two
\* integers
Unparseable(r) == r.duration # << >> /\ ~ Parseable(r)

\* C16: a candidate whose duration is not minutes:seconds gets dur_score 0
\* and never makes ytm_search_best_id raise: the call returns what it
\* returns when such candidates have no duration at all.
C16_UnparseableDurationScoresZero ==
    (rk.done /\ \E i \in 1..Len(rk.results) : Unparseable(rk.results[i])) =>
        /\ ~ rk.raised
        /\ \A i \in 1..Len(rk.results) :
              Unparseable(rk.results[i]) => rk.durs[i] = 0
        /\ rk.id = RankBody(rk.track,
                            [i \in 1..Len(rk.results) |->
                               IF Unparseable(rk.results[i])
                               THEN [rk.results[i] EXCEPT !.duration = << >>]
                               ELSE rk.results[i]]).id

\* C17: for a track of known duration and a candidate of parseable
\* duration, dur_score (in 45ths) is full, 45, when the durations are at
\* most 5 seconds apart, 0 when they are 45 seconds or more apart, and in
\* between otherwise.
C17_DurationScoreFullWithinFive ==
    (rk.done /\ ~ rk.raised /\ rk.track.duration_ms # 0) =>
        \A i \in 1..Len(rk.results) :
            Parseable(rk.results[i]) =>
                LET diff == DiffSeconds(rk.track, rk.results[i])
                IN  /\ diff <= 5 => rk.durs[i] = 45
                    /\ diff >= 45 => rk.durs[i] = 0
                    /\ (diff > 5 /\ diff < 45) => (rk.durs[i] > 0 /\ rk.durs[i] < 45)

\* C18: every row of the failure report pairs the failed id with the
\* description of a track of the current playlist whose decision in
\* track_map is that id.
C18_ReportRowsNameTheFailedTrack ==
    (pc = "returned" /\ summary.failed # << >>) =>
        LET rows == ReportRows(to_add, tracks, summary.failed)
        IN  \A k \in 1..Len(rows) :
              \E i \in 1..Len(tracks) :
                 /\ rows[k][2] = normalize_track(tracks[i].name, tracks[i].artists)
                 /\ Has(state.track_map, tracks[i].sp_id)
                 /\ Get(state.track_map, tracks[i].sp_id) = rows[k][1]

\* C19: when add_tracks_batched has returned for a playlist, every track of
\* the playlist is decided, the calls of the first pass carried, in the
\* order of the tracks, the ids of the tracks decided with an id, every call
\* was for the target playlist mapped to the playlist, and no call carried
\* anything else than such an id.
C19_EveryMatchIsSubmitted ==
    pc = "returned" =>
        /\ \A i \in 1..Len(tracks) : Has(state.track_map, tracks[i].sp_id)
        /\ LET decisions == [i \in 1..Len(tracks) |->
                                Get(state.track_map, tracks[i].sp_id)]
               matched == SelectSeq(decisions, LAMBDA v : v # None)
           IN  /\ CallIds(CallsOf("first")) = matched
               /\ \A i \in 1..Len(hist.calls) :
                     /\ hist.calls[i].pl = Get(state.playlist_map, p.sp_id)
                     /\ \A k \in 1..Len(hist.calls[i].ids) :
                           /\ hist.calls[i].ids[k] # None
                           /\ \E j \in 1..Len(matched) :
                                 matched[j] = hist.calls[i].ids[k]

\* C19 witness: a run that made no search, after a run that did not
\* complete, has submitted the id of the one track of two that has a match
C19_Witness ==
    /\ pc = "returned"
    /\ hist.run = 2 /\ hist.completed = {} /\ ~ hist.searched
    /\ Len(tracks) = 2
    /\ Get(state.track_map, tracks[1].sp_id) = None
    /\ CallIds(CallsOf("first")) = << Get(state.track_map, tracks[2].sp_id) >>

\* C20: in playlist_map, in memory and in the file, two source playlists
\* of the library (Liked Songs among them) whose normalized names are equal
\* have the same target playlist id, and two whose normalized names differ
\* have different ones.
C20_SameNameSameTarget ==
    LET all == AllPlaylists(library)
    IN  \A m \in { state.playlist_map, Persisted.playlist_map } :
          \A a, b \in 1..Len(all) :
             (a # b /\ Has(m, all[a].sp_id) /\ Has(m, all[b].sp_id)) =>
                 ((slug(all[a].name) = slug(all[b].name))
                    <=> (Get(m, all[a].sp_id) = Get(m, all[b].sp_id)))

====
